---- MODULE Spec2Model ----
(***************************************************************************)
(* SACTrainer of rlkit/torch/sac/sac.py as a state machine.                *)
(*                                                                         *)
(* Objects are modelled by identity: networks are numbered objects with a  *)
(* parameter value and a gradient accumulator, optimizers are bound at     *)
(* construction to the parameters of one network object.  A training call  *)
(* is a sequence of steps, one per statement block of train_from_torch;    *)
(* pc is the position of the call in progress ("idle" between calls), and  *)
(* every other operation of the trainer runs only between calls (the       *)
(* trainer is single-threaded).                                            *)
(*                                                                         *)
(* Numbers: parameters are integers; an optimizer step moves a parameter   *)
(* by the number of gradient contributions held by its accumulator; alpha  *)
(* is a fixed-point number in thousandths.                                 *)
(***************************************************************************)
EXTENDS Integers, Sequences, FiniteSets, TLC

\* Number of training calls explored.
MaxCalls == 3

\* ------------------------------------------------------------------ objects

\* The networks handed to the constructor, in the order of the networks
\* property, and a second family handed to the networks setter.  Net 6 is
\* a wrapper (it has a .module attribute, net 11) whose parameters are the
\* parameters of the wrapped module.
CtorNets == <<1, 2, 3, 4, 5>>
OtherNets == <<6, 7, 8, 9, 10>>
NetTuples == {CtorNets, OtherNets}
Nets == 1..11
NetNames == {"policy", "qf1", "qf2", "target_qf1", "target_qf2"}

\* The five network attributes as assigned from an ordered 5-tuple.
NetsFrom(t) == [ policy |-> t[1], qf1 |-> t[2], qf2 |-> t[3],
                 target_qf1 |-> t[4], target_qf2 |-> t[5] ]
OptNames == {"policy_optimizer", "qf1_optimizer", "qf2_optimizer"}

HasModule(n) == n = 6
ModuleOf(n) == IF HasModule(n) THEN 11 ELSE n

\* net.parameters(): the object that holds the parameter tensors of net n.
Parameters(n) == ModuleOf(n)

\* ------------------------------------------------------- constructor inputs

\* alpha in thousandths: 0.0, 0.2 and the default 1.
AlphaArgs == {0, 200, 1000}
\* target_entropy: None (given = FALSE), 0 and -2.
TargetEntropyArgs == { [given |-> FALSE, v |-> 0], [given |-> TRUE, v |-> 0],
                       [given |-> TRUE, v |-> -2] }
ActionDims == {1}
Periods == {1, 2}
\* soft_target_tau as the fraction num/2: 0.5 and 1.0.
TauNums == {1, 2}
SuppliedSets == SUBSET OptNames
\* Batch mean of the policy's log-probabilities at the batch observations.
LogPis == {-1, 3}

\* The constructor calls explored: every combination, except that the
\* argument the chosen entropy mode never reads is left at its default.
Configs ==
    { c \in [ alpha : AlphaArgs,
              use_automatic_entropy_tuning : BOOLEAN,
              target_entropy : TargetEntropyArgs,
              action_dim : ActionDims,
              target_update_period : Periods,
              tau_num : TauNums,
              supplied : SuppliedSets ] :
        IF c.use_automatic_entropy_tuning
        THEN c.alpha = 1000
        ELSE ~c.target_entropy.given }

VARIABLES
    cfg,                    \* the constructor's arguments
    net,                    \* self.policy, self.qf1, ... : name -> network object
    opt,                    \* self.<x>_optimizer : name -> the parameters it is bound to,
                            \* 0 when the attribute was never assigned
    param,                  \* parameter value of each parameter holder
    grad,                   \* gradient accumulator (.grad) of each parameter holder
    log_alpha,              \* self.log_alpha (exists only with auto-tuning)
    log_alpha_grad,         \* self.log_alpha.grad
    target_entropy,         \* self.target_entropy (exists only with auto-tuning)
    eval_statistics,        \* self.eval_statistics
    n_train_steps_total,    \* self._n_train_steps_total
    need_to_update_eval_statistics,
    pc,                     \* position of the training call in progress
    loc,                    \* local variables of the training call in progress
    ret,                    \* what the most recent operation returned or raised
    calls,                  \* history: training calls started
    completed,              \* history: training calls that returned
    trace,                  \* history: the steps of the current/last training call
    entry,                  \* history: state at the entry of the current/last call
    hist                    \* history: epoch bookkeeping of the caller

vars == << cfg, net, opt, param, grad, log_alpha, log_alpha_grad, target_entropy,
           eval_statistics, n_train_steps_total, need_to_update_eval_statistics,
           pc, loc, ret, calls, completed, trace, entry, hist >>

selfVars == << cfg, net, opt, param, grad, log_alpha, log_alpha_grad, target_entropy,
               eval_statistics, n_train_steps_total, need_to_update_eval_statistics >>

NoLoc == [ batch |-> 0, log_pi |-> 0, fwd_policy |-> 0, alpha_loss |-> 0, alpha |-> 0,
           q_new |-> <<0, 0>>, boot_policy |-> 0, tgt |-> <<0, 0>> ]
NoRet == [ op |-> "none", raised |-> FALSE, val |-> 0 ]
NoEntry == [ n |-> 0, need |-> TRUE, policy |-> 0, qf1 |-> 0, qf2 |-> 0,
             target_qf1 |-> 0, target_qf2 |-> 0 ]
EmptyStats == [ empty |-> TRUE, batch |-> 0, Alpha |-> 0,
                AlphaLoss |-> [ nan |-> FALSE, v |-> 0 ] ]

\* ------------------------------------------------------------- constructor

\* Lines 49-54: the supplied target entropy is used when it is truthy,
\* otherwise -prod(action_space.shape).
CtorTargetEntropy(c) ==
    IF c.target_entropy.given /\ c.target_entropy.v # 0
    THEN c.target_entropy.v
    ELSE -c.action_dim

\* Lines 62-69: an optimizer attribute is assigned only when the matching
\* argument is None; it is then bound to the parameters of the
\* constructor's network.
CtorOptimizer(c, name, nets) ==
    IF name \in c.supplied THEN 0
    ELSE CASE name = "policy_optimizer" -> Parameters(nets[1])
           [] name = "qf1_optimizer"    -> Parameters(nets[2])
           [] name = "qf2_optimizer"    -> Parameters(nets[3])

InitParam(h) == IF h \in {1, 2, 3, 4, 5} THEN 0 ELSE 10

Init ==
    /\ cfg \in Configs
    /\ net = NetsFrom(CtorNets)
    /\ opt = [ o \in OptNames |-> CtorOptimizer(cfg, o, CtorNets) ]
    /\ param = [ h \in Nets |-> InitParam(h) ]
    /\ grad = [ h \in Nets |-> {} ]
    /\ log_alpha = 0
    /\ log_alpha_grad = {}
    /\ target_entropy = IF cfg.use_automatic_entropy_tuning
                        THEN CtorTargetEntropy(cfg) ELSE 0
    /\ eval_statistics = EmptyStats
    /\ n_train_steps_total = 0
    /\ need_to_update_eval_statistics = TRUE
    /\ pc = "idle"
    /\ loc = NoLoc
    /\ ret = NoRet
    /\ calls = 0
    /\ completed = 0
    /\ trace = << >>
    /\ entry = NoEntry
    /\ hist = [ fresh |-> TRUE, first |-> 0 ]

\* --------------------------------------------------------- tensor helpers

\* The parameter value of the network currently held under attribute name.
ParamOf(name) == param[Parameters(net[name])]

\* zero_grad with the clearing left out.
zero_grad_skipped(g, h) == g

\* optimizer.zero_grad() on the parameters h the optimizer is bound to.
zero_grad(g, h) == [ g EXCEPT ![h] = {} ]

\* loss.backward(): every parameter holder in the loss's graph accumulates
\* the contribution of this loss.
backward(g, hs, tag) == [ h \in Nets |-> IF h \in hs THEN g[h] \cup {tag} ELSE g[h] ]

\* optimizer.step() on the parameters h the optimizer is bound to: the
\* parameters move by what the accumulator holds (nothing when it is empty).
step(p, g, h) == [ p EXCEPT ![h] = p[h] + Cardinality(g[h]) ]

Tag(loss) == [ loss |-> loss, call |-> loc.batch ]

Sign(x) == IF x > 0 THEN 1 ELSE IF x < 0 THEN -1 ELSE 0

\* torch.exp in fixed point (thousandths), truncating as it goes.
RECURSIVE exp(_)
exp(x) == IF x = 0 THEN 1000
          ELSE IF x > 0 THEN (exp(x - 1) * 2718) \div 1000
          ELSE (exp(x + 1) * 1000) \div 2718

\* ptu.soft_update_from_to(source, target, tau): every target parameter
\* becomes tau * source + (1 - tau) * target; tau = tauNum / 2.
soft_update_from_to(p, source, target, tauNum) ==
    [ p EXCEPT ![Parameters(target)] =
        (tauNum * p[Parameters(source)] + (2 - tauNum) * p[Parameters(target)]) \div 2 ]

\* The trigger evaluated on the counter after its increment.
ShouldSyncAfterIncrement(n, period) == (n + 1) % period = 0

\* Line 148: the trigger of the soft update, on the counter before its increment.
ShouldSync(n, period) == n % period = 0

\* ------------------------------------------------------- train_from_torch

\* The blocks in the order policy step first, critic targets after it.
NextLabelReference(l) ==
    CASE l = "l86"  -> "l89"
      [] l = "l89"  -> IF cfg.use_automatic_entropy_tuning THEN "l93" ELSE "l101"
      [] l = "l93"  -> "l94"
      [] l = "l94"  -> "l95"
      [] l = "l95"  -> "l101"
      [] l = "l101" -> "l131"
      [] l = "l131" -> "l132"
      [] l = "l132" -> "l134"
      [] l = "l134" -> "l108"
      [] l = "l108" -> "l136"
      [] l = "l136" -> "l137"
      [] l = "l137" -> "l139"
      [] l = "l139" -> "l141"
      [] l = "l141" -> "l142"
      [] l = "l142" -> "l144"
      [] l = "l144" -> "l148"
      [] l = "l148" -> "l154"
      [] l = "l154" -> "l196"
      [] l = "l196" -> "idle"

\* The statement following each statement block of train_from_torch.
NextLabel(l) ==
    CASE l = "l86"  -> "l89"
      [] l = "l89"  -> IF cfg.use_automatic_entropy_tuning THEN "l93" ELSE "l101"
      [] l = "l93"  -> "l94"
      [] l = "l94"  -> "l95"
      [] l = "l95"  -> "l101"
      [] l = "l101" -> "l108"
      [] l = "l108" -> "l131"
      [] l = "l131" -> "l132"
      [] l = "l132" -> "l134"
      [] l = "l134" -> "l136"
      [] l = "l136" -> "l137"
      [] l = "l137" -> "l139"
      [] l = "l139" -> "l141"
      [] l = "l141" -> "l142"
      [] l = "l142" -> "l144"
      [] l = "l144" -> "l148"
      [] l = "l148" -> "l154"
      [] l = "l154" -> "l196"
      [] l = "l196" -> "idle"

\* A statement block at label l ran to its end.
Goto(l, event) ==
    /\ pc' = NextLabel(l)
    /\ trace' = Append(trace, event)

\* An AttributeError leaves train_from_torch at label l.
Raise(event) ==
    /\ pc' = "idle"
    /\ trace' = Append(trace, event)
    /\ loc' = NoLoc
    /\ ret' = [ op |-> "train_from_torch", raised |-> TRUE, val |-> 0 ]
    /\ UNCHANGED << selfVars, calls, completed, entry, hist >>

\* Lines 78-88: the batch is read and the policy evaluated at the batch
\* observations.
TrainBegin(lp) ==
    /\ pc = "idle"
    /\ calls < MaxCalls
    /\ calls' = calls + 1
    /\ loc' = [ NoLoc EXCEPT !.batch = calls + 1, !.log_pi = lp,
                             !.fwd_policy = ParamOf("policy") ]
    /\ entry' = [ n |-> n_train_steps_total, need |-> need_to_update_eval_statistics,
                  policy |-> ParamOf("policy"), qf1 |-> ParamOf("qf1"),
                  qf2 |-> ParamOf("qf2"), target_qf1 |-> ParamOf("target_qf1"),
                  target_qf2 |-> ParamOf("target_qf2") ]
    /\ pc' = NextLabel("l86")
    /\ trace' = << "policy_forward" >>
    /\ ret' = NoRet
    /\ UNCHANGED << selfVars, completed, hist >>

\* Lines 89-92 and 97-99: the alpha loss, or the fixed alpha.
AlphaLoss ==
    /\ pc = "l89"
    /\ IF cfg.use_automatic_entropy_tuning
       THEN loc' = [ loc EXCEPT !.alpha_loss = -(log_alpha * (loc.log_pi + target_entropy)) ]
       ELSE loc' = [ loc EXCEPT !.alpha_loss = 0, !.alpha = cfg.alpha ]
    /\ Goto("l89", "alpha_loss")
    /\ UNCHANGED << selfVars, ret, calls, completed, entry, hist >>

\* Line 93.
AlphaZeroGrad ==
    /\ pc = "l93"
    /\ log_alpha_grad' = {}
    /\ Goto("l93", "alpha_zero_grad")
    /\ UNCHANGED << cfg, net, opt, param, grad, log_alpha, target_entropy, eval_statistics,
                    n_train_steps_total, need_to_update_eval_statistics,
                    loc, ret, calls, completed, entry, hist >>

\* Line 94: log_pi and the target entropy are detached, only log_alpha is
\* in the graph of the alpha loss.
AlphaBackward ==
    /\ pc = "l94"
    /\ log_alpha_grad' = log_alpha_grad \cup { Tag("alpha") }
    /\ Goto("l94", "alpha_backward")
    /\ UNCHANGED << cfg, net, opt, param, grad, log_alpha, target_entropy, eval_statistics,
                    n_train_steps_total, need_to_update_eval_statistics,
                    loc, ret, calls, completed, entry, hist >>

\* Lines 95-96: the gradient of the alpha loss in log_alpha is
\* -(log_pi + target_entropy); alpha is exp of the stepped log_alpha.
AlphaStep ==
    /\ pc = "l95"
    /\ log_alpha' = IF log_alpha_grad = {} THEN log_alpha
                    ELSE log_alpha + Sign(loc.log_pi + target_entropy)
    /\ loc' = [ loc EXCEPT !.alpha = exp(log_alpha') ]
    /\ Goto("l95", "alpha_step")
    /\ UNCHANGED << cfg, net, opt, param, grad, log_alpha_grad, target_entropy,
                    eval_statistics, n_train_steps_total, need_to_update_eval_statistics,
                    ret, calls, completed, entry, hist >>

\* Lines 101-104: the policy loss, from the critics as they are now.
PolicyLoss ==
    /\ pc = "l101"
    /\ loc' = [ loc EXCEPT !.q_new = << ParamOf("qf1"), ParamOf("qf2") >> ]
    /\ Goto("l101", "policy_loss")
    /\ UNCHANGED << selfVars, ret, calls, completed, entry, hist >>

\* Lines 108-127: the critic predictions, the policy evaluated at the next
\* observations, the target values and the two critic losses.
QFLoss ==
    /\ pc = "l108"
    /\ loc' = [ loc EXCEPT !.boot_policy = ParamOf("policy"),
                           !.tgt = << ParamOf("target_qf1"), ParamOf("target_qf2") >> ]
    /\ Goto("l108", "critic_target")
    /\ UNCHANGED << selfVars, ret, calls, completed, entry, hist >>

\* optimizer.zero_grad() through the attribute o at label l; the attribute
\* lookup raises AttributeError when the constructor never assigned it.
OptimizerZeroGrad(l, o, event) ==
    /\ pc = l
    /\ IF opt[o] = 0
       THEN Raise("raise")
       ELSE /\ grad' = zero_grad(grad, opt[o])
            /\ Goto(l, event)
            /\ UNCHANGED << cfg, net, opt, param, log_alpha, log_alpha_grad, target_entropy,
                            eval_statistics, n_train_steps_total,
                            need_to_update_eval_statistics,
                            loc, ret, calls, completed, entry, hist >>

\* optimizer.step() through the attribute o at label l.
OptimizerStep(l, o, event) ==
    /\ pc = l
    /\ param' = step(param, grad, opt[o])
    /\ Goto(l, event)
    /\ UNCHANGED << cfg, net, opt, grad, log_alpha, log_alpha_grad, target_entropy,
                    eval_statistics, n_train_steps_total, need_to_update_eval_statistics,
                    loc, ret, calls, completed, entry, hist >>

\* The parameters in the graph of the policy loss (line 104): the policy
\* (through log_pi and the new actions) and both critics (q_new_actions);
\* log_alpha too with auto-tuning, alpha = log_alpha.exp() not being detached.
PolicyLossGraph == { Parameters(net.policy), Parameters(net.qf1), Parameters(net.qf2) }

\* Line 131.
PolicyZeroGrad == OptimizerZeroGrad("l131", "policy_optimizer", "policy_zero_grad")

\* Lines 132-133; clip_grad_norm_ rescales what the policy's accumulator
\* holds and leaves the set of contributions as it is.
PolicyBackward ==
    /\ pc = "l132"
    /\ grad' = backward(grad, PolicyLossGraph, Tag("policy"))
    /\ log_alpha_grad' = IF cfg.use_automatic_entropy_tuning
                         THEN log_alpha_grad \cup { Tag("policy") }
                         ELSE log_alpha_grad
    /\ Goto("l132", "policy_backward")
    /\ UNCHANGED << cfg, net, opt, param, log_alpha, target_entropy, eval_statistics,
                    n_train_steps_total, need_to_update_eval_statistics,
                    loc, ret, calls, completed, entry, hist >>

\* Line 134.
PolicyStep == OptimizerStep("l134", "policy_optimizer", "policy_step")

\* Line 136.
Qf1ZeroGrad == OptimizerZeroGrad("l136", "qf1_optimizer", "qf1_zero_grad")

\* Lines 137-138: q_target is detached, only qf1 is in the graph of qf1_loss.
Qf1Backward ==
    /\ pc = "l137"
    /\ grad' = backward(grad, { Parameters(net.qf1) }, Tag("qf1"))
    /\ Goto("l137", "qf1_backward")
    /\ UNCHANGED << cfg, net, opt, param, log_alpha, log_alpha_grad, target_entropy,
                    eval_statistics, n_train_steps_total, need_to_update_eval_statistics,
                    loc, ret, calls, completed, entry, hist >>

\* Line 139.
Qf1Step == OptimizerStep("l139", "qf1_optimizer", "qf1_step")

\* Line 141.
Qf2ZeroGrad == OptimizerZeroGrad("l141", "qf2_optimizer", "qf2_zero_grad")

\* Lines 142-143.
Qf2Backward ==
    /\ pc = "l142"
    /\ grad' = backward(grad, { Parameters(net.qf2) }, Tag("qf2"))
    /\ Goto("l142", "qf2_backward")
    /\ UNCHANGED << cfg, net, opt, param, log_alpha, log_alpha_grad, target_entropy,
                    eval_statistics, n_train_steps_total, need_to_update_eval_statistics,
                    loc, ret, calls, completed, entry, hist >>

\* Line 144.
Qf2Step == OptimizerStep("l144", "qf2_optimizer", "qf2_step")

\* Lines 148-150.
SoftUpdates ==
    /\ pc = "l148"
    /\ IF ShouldSync(n_train_steps_total, cfg.target_update_period)
       THEN param' = soft_update_from_to(
                        soft_update_from_to(param, net.qf1, net.target_qf1, cfg.tau_num),
                        net.qf2, net.target_qf2, cfg.tau_num)
       ELSE param' = param
    /\ Goto("l148", IF ShouldSync(n_train_steps_total, cfg.target_update_period)
                    THEN "soft_update" ELSE "no_soft_update")
    /\ UNCHANGED << cfg, net, opt, grad, log_alpha, log_alpha_grad, target_entropy,
                    eval_statistics, n_train_steps_total, need_to_update_eval_statistics,
                    loc, ret, calls, completed, entry, hist >>

\* The statistics with alpha_loss reported whatever the entropy mode.
StatisticsAlphaLossAlways ==
    [ empty |-> FALSE, batch |-> loc.batch, Alpha |-> loc.alpha,
      AlphaLoss |-> [ nan |-> FALSE, v |-> loc.alpha_loss ] ]

\* Lines 162-195: the statistics of this call's batch.
Statistics ==
    [ empty |-> FALSE, batch |-> loc.batch, Alpha |-> loc.alpha,
      AlphaLoss |-> IF cfg.use_automatic_entropy_tuning
                    THEN [ nan |-> FALSE, v |-> loc.alpha_loss ]
                    ELSE [ nan |-> TRUE, v |-> 0 ] ]

\* The statistics block with the flag never cleared.
SaveStatisticsKeepsFlag ==
    /\ pc = "l154"
    /\ IF need_to_update_eval_statistics
       THEN eval_statistics' = Statistics
       ELSE UNCHANGED eval_statistics
    /\ Goto("l154", IF need_to_update_eval_statistics THEN "statistics" ELSE "no_statistics")
    /\ UNCHANGED << cfg, net, opt, param, grad, log_alpha, log_alpha_grad, target_entropy,
                    n_train_steps_total, need_to_update_eval_statistics,
                    loc, ret, calls, completed, entry, hist >>

\* Lines 154-195.
SaveStatistics ==
    /\ pc = "l154"
    /\ IF need_to_update_eval_statistics
       THEN /\ need_to_update_eval_statistics' = FALSE
            /\ eval_statistics' = Statistics
       ELSE UNCHANGED << need_to_update_eval_statistics, eval_statistics >>
    /\ Goto("l154", IF need_to_update_eval_statistics THEN "statistics" ELSE "no_statistics")
    /\ UNCHANGED << cfg, net, opt, param, grad, log_alpha, log_alpha_grad, target_entropy,
                    n_train_steps_total, loc, ret, calls, completed, entry, hist >>

\* The increment indented into the statistics block.
IncrementInsideIf ==
    /\ pc = "l196"
    /\ n_train_steps_total' = n_train_steps_total + (IF entry.need THEN 1 ELSE 0)
    /\ Goto("l196", "increment")
    /\ completed' = completed + 1
    /\ hist' = IF hist.fresh THEN [ fresh |-> FALSE, first |-> loc.batch ] ELSE hist
    /\ loc' = NoLoc
    /\ ret' = [ op |-> "train_from_torch", raised |-> FALSE, val |-> 0 ]
    /\ UNCHANGED << cfg, net, opt, param, grad, log_alpha, log_alpha_grad, target_entropy,
                    eval_statistics, need_to_update_eval_statistics, calls, entry >>

\* Line 196, and the return to the caller.
Increment ==
    /\ pc = "l196"
    /\ n_train_steps_total' = n_train_steps_total + 1
    /\ Goto("l196", "increment")
    /\ completed' = completed + 1
    /\ hist' = IF hist.fresh THEN [ fresh |-> FALSE, first |-> loc.batch ] ELSE hist
    /\ loc' = NoLoc
    /\ ret' = [ op |-> "train_from_torch", raised |-> FALSE, val |-> 0 ]
    /\ UNCHANGED << cfg, net, opt, param, grad, log_alpha, log_alpha_grad, target_entropy,
                    eval_statistics, need_to_update_eval_statistics, calls, entry >>

\* ------------------------------------------------------ other operations

\* Lines 198-199.
get_diagnostics ==
    /\ pc = "idle"
    /\ ret' = [ op |-> "get_diagnostics", raised |-> FALSE, val |-> eval_statistics ]
    /\ UNCHANGED << selfVars, pc, loc, calls, completed, trace, entry, hist >>

\* Lines 201-202.
end_epoch ==
    /\ pc = "idle"
    /\ need_to_update_eval_statistics' = TRUE
    /\ hist' = [ hist EXCEPT !.fresh = TRUE ]
    /\ ret' = [ op |-> "end_epoch", raised |-> FALSE, val |-> 0 ]
    /\ UNCHANGED << cfg, net, opt, param, grad, log_alpha, log_alpha_grad, target_entropy,
                    eval_statistics, n_train_steps_total,
                    pc, loc, calls, completed, trace, entry >>

\* Lines 204-212.
networks_get ==
    /\ pc = "idle"
    /\ ret' = [ op |-> "networks", raised |-> FALSE,
                val |-> << net.policy, net.qf1, net.qf2, net.target_qf1, net.target_qf2 >> ]
    /\ UNCHANGED << selfVars, pc, loc, calls, completed, trace, entry, hist >>

\* Lines 214-216.
networks_set(nets) ==
    /\ pc = "idle"
    /\ net' = NetsFrom(nets)
    /\ ret' = [ op |-> "networks_set", raised |-> FALSE, val |-> nets ]
    /\ UNCHANGED << cfg, opt, param, grad, log_alpha, log_alpha_grad, target_entropy,
                    eval_statistics, n_train_steps_total, need_to_update_eval_statistics,
                    pc, loc, calls, completed, trace, entry, hist >>

\* Lines 219-233: the snapshot, networks that have a .module replaced by it.
Snapshot ==
    [ policy |-> ModuleOf(net.policy), qf1 |-> ModuleOf(net.qf1), qf2 |-> ModuleOf(net.qf2),
      target_qf1 |-> ModuleOf(net.target_qf1), target_qf2 |-> ModuleOf(net.target_qf2),
      policy_optimizer |-> opt["policy_optimizer"],
      qf1_optimizer |-> opt["qf1_optimizer"],
      qf2_optimizer |-> opt["qf2_optimizer"] ]

\* Lines 218-233; reading an optimizer attribute the constructor never
\* assigned raises AttributeError.
get_snapshot ==
    /\ pc = "idle"
    /\ ret' = IF \E o \in OptNames : opt[o] = 0
              THEN [ op |-> "get_snapshot", raised |-> TRUE, val |-> 0 ]
              ELSE [ op |-> "get_snapshot", raised |-> FALSE, val |-> Snapshot ]
    /\ UNCHANGED << selfVars, pc, loc, calls, completed, trace, entry, hist >>

Next ==
    \/ \E lp \in LogPis : TrainBegin(lp)
    \/ AlphaLoss
    \/ AlphaZeroGrad
    \/ AlphaBackward
    \/ AlphaStep
    \/ PolicyLoss
    \/ QFLoss
    \/ PolicyZeroGrad
    \/ PolicyBackward
    \/ PolicyStep
    \/ Qf1ZeroGrad
    \/ Qf1Backward
    \/ Qf1Step
    \/ Qf2ZeroGrad
    \/ Qf2Backward
    \/ Qf2Step
    \/ SoftUpdates
    \/ SaveStatistics
    \/ Increment
    \/ get_diagnostics
    \/ end_epoch
    \/ networks_get
    \/ \E nets \in NetTuples : networks_set(nets)
    \/ get_snapshot

Spec == Init /\ [][Next]_vars

\* ------------------------------------------------------------ properties

InCall == pc # "idle"

\* Event a occurred before every occurrence of event b in the call.
Precedes(a, b) ==
    \A j \in DOMAIN trace : trace[j] = b => \E i \in 1..(j - 1) : trace[i] = a

\* Event a is the event right before every occurrence of event b.
RightBefore(a, b) ==
    \A j \in DOMAIN trace : trace[j] = b => j > 1 /\ trace[j - 1] = a

Occurred(e) == \E i \in DOMAIN trace : trace[i] = e

\* tau * online + (1 - tau) * target, tau = cfg.tau_num / 2.
Ema(online, target) == (cfg.tau_num * online + (2 - cfg.tau_num) * target) \div 2

\* C1: between calls, EvalStatistics (and what get_diagnostics returns) is
\* the statistics of the first training call that returned after the most
\* recent epoch boundary (construction or end_epoch) followed by a returned
\* training call; it is empty while no training call has returned.  Later
\* calls of the epoch leave it alone, the first call after end_epoch
\* recomputes it.
C1_FirstBatchOfEpoch ==
    pc = "idle" =>
        /\ hist.first = 0 => eval_statistics.empty
        /\ hist.first # 0 => ~eval_statistics.empty /\ eval_statistics.batch = hist.first
        /\ need_to_update_eval_statistics = hist.fresh
        /\ ret.op = "get_diagnostics" => ret.val = eval_statistics

\* C1 witness: three calls returned, an epoch boundary between the first
\* and the second, and get_diagnostics returns the second call's statistics.
C1_Witness ==
    /\ ret.op = "get_diagnostics"
    /\ completed = 3
    /\ ~ret.val.empty
    /\ ret.val.batch = 2

\* C2: in a training call the targets keep their entry values up to the
\* soft-update block; past it they are tau*online + (1-tau)*target of the
\* online critics as stepped by this call when the counter at entry is a
\* multiple of target_update_period (equal to the online critics when
\* tau = 1), and still their entry values otherwise.
C2_TargetSync ==
    InCall =>
        IF pc \in {"l154", "l196"} /\ entry.n % cfg.target_update_period = 0
        THEN /\ ParamOf("target_qf1") = Ema(ParamOf("qf1"), entry.target_qf1)
             /\ ParamOf("target_qf2") = Ema(ParamOf("qf2"), entry.target_qf2)
             /\ cfg.tau_num = 2 => /\ ParamOf("target_qf1") = ParamOf("qf1")
                                   /\ ParamOf("target_qf2") = ParamOf("qf2")
             /\ Precedes("qf1_step", "soft_update")
             /\ Precedes("qf2_step", "soft_update")
        ELSE /\ ParamOf("target_qf1") = entry.target_qf1
             /\ ParamOf("target_qf2") = entry.target_qf2

\* C2 witness: a call entered with counter 2 and period 2, tau = 1, past
\* the soft update: the targets equal the critics this call stepped.
C2_Witness ==
    /\ pc = "l154"
    /\ entry.n = 2
    /\ cfg.target_update_period = 2
    /\ cfg.tau_num = 2
    /\ ParamOf("qf1") # entry.qf1
    /\ ParamOf("target_qf1") = ParamOf("qf1")
    /\ ParamOf("target_qf1") # entry.target_qf1

\* C2 witness of the other branch: counter 1, period 2, past the
\* soft-update block with stepped critics and untouched targets.
C2_WitnessNoSync ==
    /\ pc = "l154"
    /\ entry.n = 1
    /\ cfg.target_update_period = 2
    /\ ParamOf("qf1") # entry.qf1
    /\ ParamOf("target_qf1") = entry.target_qf1

\* C3 as stated: the policy backward pass and optimizer step come before
\* the critic target computation (with its bootstrap policy evaluation).
C3_ReferenceOrder ==
    /\ Precedes("alpha_loss", "policy_loss")
    /\ Precedes("policy_loss", "policy_backward")
    /\ Precedes("policy_backward", "policy_step")
    /\ Precedes("policy_step", "critic_target")
    /\ Precedes("critic_target", "qf1_backward")
    /\ Precedes("critic_target", "qf2_backward")

\* C3 amended: entropy-coefficient update, policy loss from the critics at
\* their values at entry, critic target computation with the bootstrap
\* evaluation made by the policy at its value at entry, and only then the
\* policy backward pass and step, the qf1 backward pass and step and the
\* qf2 backward pass and step.
C3_CodeOrder ==
    /\ Precedes("alpha_loss", "policy_loss")
    /\ cfg.use_automatic_entropy_tuning => Precedes("alpha_step", "policy_loss")
    /\ Precedes("alpha_loss", "alpha_step")
    /\ Precedes("policy_loss", "critic_target")
    /\ Precedes("critic_target", "policy_backward")
    /\ Precedes("policy_backward", "policy_step")
    /\ Precedes("policy_step", "qf1_backward")
    /\ Precedes("qf1_backward", "qf1_step")
    /\ Precedes("qf1_step", "qf2_backward")
    /\ Precedes("qf2_backward", "qf2_step")
    /\ InCall /\ Occurred("policy_loss") => loc.q_new = << entry.qf1, entry.qf2 >>
    /\ InCall /\ Occurred("critic_target") => loc.boot_policy = entry.policy

\* C3 witness: the policy has been stepped in this call, and the bootstrap
\* evaluation was made with the policy as it was before the step.
C3_Witness ==
    /\ pc = "l136"
    /\ ParamOf("policy") # entry.policy
    /\ loc.boot_policy = entry.policy
    /\ loc.q_new = << entry.qf1, entry.qf2 >>

\* C4: every backward pass comes right after the zero_grad of its own
\* optimizer; when an optimizer is about to step, the accumulator of the
\* parameters it updates holds nothing but its own loss of the current
\* call; a zero_grad leaves the accumulators of the other networks alone;
\* and no optimizer step changes a target critic.
C4_OwnGradientsOnly ==
    /\ RightBefore("alpha_zero_grad", "alpha_backward")
    /\ RightBefore("policy_zero_grad", "policy_backward")
    /\ RightBefore("qf1_zero_grad", "qf1_backward")
    /\ RightBefore("qf2_zero_grad", "qf2_backward")
    /\ pc = "l95" => log_alpha_grad = { Tag("alpha") }
    /\ pc = "l134" => grad[opt["policy_optimizer"]] \subseteq { Tag("policy") }
    /\ pc = "l139" => grad[opt["qf1_optimizer"]] \subseteq { Tag("qf1") }
    /\ pc = "l144" => grad[opt["qf2_optimizer"]] \subseteq { Tag("qf2") }
    /\ pc = "l137" => Tag("policy") \in grad[Parameters(net.qf2)]
    /\ pc = "l142" => Tag("qf1") \in grad[Parameters(net.qf1)]
    /\ pc \in {"l136", "l141", "l148"} =>
           /\ ParamOf("target_qf1") = entry.target_qf1
           /\ ParamOf("target_qf2") = entry.target_qf2

\* C4 witness: second call, qf1's optimizer about to step; its accumulator
\* holds exactly this call's qf1 loss although the policy loss of this
\* call and the losses of the first call reached it.
C4_Witness ==
    /\ pc = "l139"
    /\ loc.batch = 2
    /\ completed = 1
    /\ opt["qf1_optimizer"] = Parameters(net.qf1)
    /\ grad[opt["qf1_optimizer"]] = { Tag("qf1") }
    /\ Tag("policy") \in grad[Parameters(net.qf2)]

\* C5: the counter is the number of training calls that returned; inside a
\* call it keeps its entry value up to the last statement, which comes
\* after the optimizer steps, the soft-update block and the statistics
\* block.
C5_CounterCountsCalls ==
    /\ n_train_steps_total = completed
    /\ InCall => n_train_steps_total = entry.n
    /\ Occurred("increment") =>
           /\ trace[Len(trace)] = "increment"
           /\ Precedes("qf2_step", "increment")
           /\ Occurred("soft_update") \/ Occurred("no_soft_update")
           /\ Occurred("statistics") \/ Occurred("no_statistics")
           /\ pc = "idle" /\ ret.op = "train_from_torch" => n_train_steps_total = entry.n + 1

\* C5 witness: two calls returned, operations other than training ran
\* since, and the counter is 2.
C5_Witness ==
    /\ n_train_steps_total = 2
    /\ pc = "idle"
    /\ ret.op = "networks_set"
    /\ net.policy = 6
    /\ hist.fresh

\* C6 as stated: the alpha used in the policy loss and the critic target
\* is strictly positive for every constructor configuration.
C6_AlphaPositive ==
    pc \in {"l101", "l108"} =>
        /\ loc.alpha > 0
        /\ loc.alpha = IF cfg.use_automatic_entropy_tuning THEN exp(log_alpha) ELSE cfg.alpha

\* C7 as stated: with auto-tuning a supplied target entropy is used as it
\* is, whatever its value, and -action_dim only when none is supplied.
C7_SuppliedTargetEntropy ==
    cfg.use_automatic_entropy_tuning =>
        target_entropy = IF cfg.target_entropy.given
                         THEN cfg.target_entropy.v
                         ELSE -cfg.action_dim

\* C8: without auto-tuning every call uses the constructor's alpha, the
\* entropy coefficient is never stepped, and recomputed statistics report
\* that alpha and a not-a-number alpha loss.
C8_FixedAlpha ==
    ~cfg.use_automatic_entropy_tuning =>
        /\ InCall /\ Occurred("alpha_loss") => loc.alpha = cfg.alpha
        /\ ~Occurred("alpha_step")
        /\ log_alpha = 0
        /\ ~eval_statistics.empty =>
               /\ eval_statistics.Alpha = cfg.alpha
               /\ eval_statistics.AlphaLoss.nan

\* C8 witness: auto-tuning off, alpha 0.2, statistics recomputed by the
\* second call (after an epoch boundary).
C8_Witness ==
    /\ ~cfg.use_automatic_entropy_tuning
    /\ cfg.alpha = 200
    /\ pc = "l196"
    /\ eval_statistics.batch = 2
    /\ eval_statistics.Alpha = 200
    /\ eval_statistics.AlphaLoss.nan

\* C9 as stated: get_snapshot returns the eight keys, the networks being
\* the trainer's current objects, whichever optimizers were supplied.
C9_SnapshotKeys ==
    ret.op = "get_snapshot" =>
        /\ ~ret.raised
        /\ DOMAIN ret.val = NetNames \cup OptNames
        /\ \A k \in NetNames : ret.val[k] = net[k]

\* C10 as stated: the getter returns the five networks in order, and in a
\* training call the policy, qf1 and qf2 optimizer steps update the
\* parameters of the networks the trainer holds.
C10_StepsUpdateHeldNetworks ==
    /\ ret.op = "networks" =>
           ret.val = << net.policy, net.qf1, net.qf2, net.target_qf1, net.target_qf2 >>
    /\ pc = "l136" => ParamOf("policy") # entry.policy
    /\ pc = "l141" => ParamOf("qf1") # entry.qf1
    /\ pc = "l148" => ParamOf("qf2") # entry.qf2

====
